---- MODULE Spec2Model ----
(***************************************************************************)
(* Query builder, table-name classifier and table selector of the dataset  *)
(* explorer front end (frontend/src/components).                           *)
(*                                                                         *)
(* Conventions.  An optional property (alias?, where?, limit?, ...) is a   *)
(* sequence of length at most one: << >> when the property is absent       *)
(* (JavaScript undefined), <<v>> when it holds v.  Text handed to the      *)
(* caller is a TLA+ string; names that are split or parsed character by    *)
(* character are sequences of one-character strings.                       *)
(***************************************************************************)
EXTENDS Integers, Sequences, FiniteSets, TLC

VARIABLES
    tableSchema,  \* QueryBuilder prop tableInfo.tableSchema: field names
    state,        \* QueryBuilder React state `state`
    autoAlias,    \* QueryBuilder React state `autoAlias`
    mounted,      \* FALSE once a render of the builder has thrown
    lastOp,       \* the handler that ran last
    compiled,     \* inputs read by the last updateQueryFromState call
    threw,        \* the last handler ended in a TypeError
    lines,        \* lines of the text built by the last compile
    query,        \* text the last handler passed to onQueryChange
    notified,     \* state the last handler passed to onStateChange
    table,        \* TableSelector: the table name given to parseTableName
    parsed,       \* TableSelector: the ParsedTable it returned
    tables,       \* Explorer: the fetched table list given to groupTablesByDate
    tableGroups,  \* Explorer: the TableGroup[] it returned
    datasets,     \* Explorer: the fetched dataset list given to groupDatasets
    datasetGroups,    \* Explorer: the DatasetGroup[] it returned
    selectedDataset,  \* Explorer React state `selectedDataset`
    selectedTable,    \* Explorer React state `selectedTable`
    explorerQuery,    \* Explorer React state `query` (the editor text)
    inserted,         \* Explorer: arguments of the last insertFieldIntoQuery
    selectedMonth,    \* Explorer React state `selectedMonth` (its tables)
    search,           \* TableSelector React state `search`
    selectedIndex,    \* TableSelector React state `selectedIndex`
    keyed             \* TableSelector: the last key press and what it called

builderVars == <<tableSchema, state, autoAlias, mounted, lastOp, compiled,
                 threw, lines, query, notified>>
parseVars == <<table, parsed>>
groupVars == <<tables, tableGroups, datasets, datasetGroups>>
explorerVars == <<selectedDataset, selectedTable, explorerQuery, inserted>>
selectorVars == <<selectedMonth, search, selectedIndex, keyed>>
vars == <<builderVars, parseVars, groupVars, explorerVars, selectorVars>>

----------------------------------------------------------------------------
(* Bounds of the explored inputs *)

MaxNum == 2          \* limit and offset range over 0..MaxNum
MaxSchema == 2       \* number of schema fields offered by the field selector

----------------------------------------------------------------------------
(* JavaScript values *)

None == << >>
Some(v) == <<v>>
IsSet(o) == Len(o) > 0
Val(o) == o[1]

\* truthiness of an optional string / number / object property
TruthyStr(o) == IsSet(o) /\ Val(o) # ""
TruthyNum(o) == IsSet(o) /\ Val(o) # 0

RECURSIVE JoinStr(_, _)
\* Array.prototype.join on an array of strings
JoinStr(seq, sep) ==
    IF Len(seq) = 0 THEN ""
    ELSE IF Len(seq) = 1 THEN seq[1]
    ELSE seq[1] \o sep \o JoinStr(Tail(seq), sep)

\* `${n}` of a non-negative integer
NumStr(n) == ToString(n)

\* JSON.stringify of a where-condition value (strings here need no escapes)
JSONstringify(v) ==
    IF v.t = "string" THEN "\"" \o v.s \o "\"" ELSE NumStr(v.n)

\* `${v}` of a where-condition value
ValueStr(v) == IF v.t = "string" THEN v.s ELSE NumStr(v.n)

StrV(s) == [t |-> "string", s |-> s, n |-> 0]
NumV(n) == [t |-> "number", s |-> "", n |-> n]

\* the parts of the front end a specification leaves untouched
ParseIdle == table = << >> /\ parsed = None
GroupIdle ==
    /\ tables = << >> /\ tableGroups = None
    /\ datasets = << >> /\ datasetGroups = None
ExplorerIdle ==
    /\ selectedDataset = None /\ selectedTable = None
    /\ explorerQuery = << >> /\ inserted = None
SelectorIdle ==
    /\ selectedMonth = None /\ search = << >>
    /\ selectedIndex = 0 /\ keyed = None

----------------------------------------------------------------------------
(* types.d.ts: QueryField; an array slot can also hold undefined *)

QueryField(f, a, ta) ==
    [js |-> "object", fieldName |-> f, alias |-> a, tableAlias |-> ta]

undefined ==
    [js |-> "undefined", fieldName |-> "", alias |-> None, tableAlias |-> None]

----------------------------------------------------------------------------
(* updateQueryFromState: the SELECT list *)

\* fieldRef: tableAlias.fieldName when tableAlias is truthy
fieldRef(field) ==
    IF TruthyStr(field.tableAlias)
    THEN Val(field.tableAlias) \o "." \o field.fieldName
    ELSE field.fieldName

\* field.alias || `${field.fieldName}_${field.tableAlias || 'main'}`
alias(field) ==
    IF TruthyStr(field.alias) THEN Val(field.alias)
    ELSE field.fieldName \o "_" \o
         (IF TruthyStr(field.tableAlias) THEN Val(field.tableAlias) ELSE "main")

\* the AS part emitted whatever the auto-alias setting is
fieldEntry_alwaysAs(field, aAlias) ==
    fieldRef(field) \o " AS " \o alias(field)

\* the string the map callback returns for one selected field
fieldEntry(field, aAlias) ==
    IF aAlias THEN fieldRef(field) \o " AS " \o alias(field)
    ELSE fieldRef(field)

\* the lines of `  ${fieldList}`, fieldList being the entries joined by ',\n  '
fieldListLines(fields, aAlias) ==
    [i \in 1..Len(fields) |->
        "  " \o fieldEntry(fields[i], aAlias) \o
        (IF i < Len(fields) THEN "," ELSE "")]

\* first line of the template: `SELECT${state.distinct ? ' DISTINCT' : ''}`
selectLine(distinct) ==
    "SELECT" \o (IF distinct THEN " DISTINCT" ELSE "")

fromLine == "FROM ${TABLE}"

----------------------------------------------------------------------------
(* updateQueryFromState: JOIN, WHERE, GROUP BY, HAVING, ORDER BY *)

joinCondStr(cond) ==
    cond.leftField \o " " \o cond.operator \o " " \o cond.rightField

joinLine(join) ==
    join.type \o " JOIN " \o join.table \o " AS " \o join.tableAlias \o " ON " \o
    JoinStr([i \in 1..Len(join.conditions) |-> joinCondStr(join.conditions[i])],
            " AND ")

joinLines(joins) == [i \in 1..Len(joins) |-> joinLine(joins[i])]

\* isField is optional: absent counts as false
condStr(cond) ==
    cond.field \o " " \o cond.operator \o " " \o
    (IF IsSet(cond.isField) /\ Val(cond.isField)
     THEN ValueStr(cond.value) ELSE JSONstringify(cond.value))

conditionsStr(clause) ==
    JoinStr([i \in 1..Len(clause.conditions) |-> condStr(clause.conditions[i])],
            " " \o clause.conjunction \o " ")

\* the length test of the where block dropped
whereLines_ifPresent(newState) ==
    IF IsSet(newState.where)
    THEN <<"WHERE " \o conditionsStr(Val(newState.where))>>
    ELSE << >>

whereLines(newState) ==
    IF IsSet(newState.where) /\ Len(Val(newState.where).conditions) > 0
    THEN <<"WHERE " \o conditionsStr(Val(newState.where))>>
    ELSE << >>

groupByLines(newState) ==
    IF IsSet(newState.groupBy) /\ Len(Val(newState.groupBy).fields) > 0
    THEN <<"GROUP BY " \o JoinStr(Val(newState.groupBy).fields, ", ")>> \o
         (IF IsSet(Val(newState.groupBy).having)
          THEN <<"HAVING " \o conditionsStr(Val(Val(newState.groupBy).having))>>
          ELSE << >>)
    ELSE << >>

orderByLines(newState) ==
    IF IsSet(newState.orderBy) /\ Len(Val(newState.orderBy)) > 0
    THEN <<"ORDER BY " \o
           JoinStr([i \in 1..Len(Val(newState.orderBy)) |->
                       Val(newState.orderBy)[i].field \o " " \o
                       Val(newState.orderBy)[i].direction], ", ")>>
    ELSE << >>

\* OFFSET tested next to LIMIT instead of inside its block
limitOffsetLines_unnested(newState) ==
    (IF TruthyNum(newState.limit)
     THEN <<"LIMIT " \o NumStr(Val(newState.limit))>> ELSE << >>) \o
    (IF TruthyNum(newState.offset)
     THEN <<"OFFSET " \o NumStr(Val(newState.offset))>> ELSE << >>)

\* if (newState.limit) { LIMIT; if (newState.offset) { OFFSET } }
limitOffsetLines(newState) ==
    IF TruthyNum(newState.limit)
    THEN <<"LIMIT " \o NumStr(Val(newState.limit))>> \o
         (IF TruthyNum(newState.offset)
          THEN <<"OFFSET " \o NumStr(Val(newState.offset))>>
          ELSE << >>)
    ELSE << >>

----------------------------------------------------------------------------
(* updateQueryFromState as a whole *)

\* the early return dropped
isEmptySelection_never(newState) == FALSE

\* the early-return test on the selection
isEmptySelection(newState) == Len(newState.selectedFields) = 0

\* reading field.tableAlias of an undefined array slot is a TypeError
mapThrows(newState) ==
    \E i \in 1..Len(newState.selectedFields) :
        newState.selectedFields[i].js = "undefined"

\* the where block placed before the join block
queryLines_whereFirst(newState, sDistinct, aAlias) ==
    <<selectLine(sDistinct)>> \o
    fieldListLines(newState.selectedFields, aAlias) \o
    <<fromLine>> \o
    whereLines(newState) \o
    (IF Len(newState.joins) > 0 THEN joinLines(newState.joins) ELSE << >>) \o
    groupByLines(newState) \o
    orderByLines(newState) \o
    limitOffsetLines(newState)

\* the lines of the template and of every `query += '\n...'` that follows it;
\* sDistinct and aAlias are state.distinct and autoAlias as the callback's
\* closure captured them at the last render
queryLines(newState, sDistinct, aAlias) ==
    <<selectLine(sDistinct)>> \o
    fieldListLines(newState.selectedFields, aAlias) \o
    <<fromLine>> \o
    (IF Len(newState.joins) > 0 THEN joinLines(newState.joins) ELSE << >>) \o
    whereLines(newState) \o
    groupByLines(newState) \o
    orderByLines(newState) \o
    limitOffsetLines(newState)

\* what one call does: whether it throws, the text given to onQueryChange
\* and the state given to onStateChange (None when the callback is not called)
updateQueryFromState(newState, sDistinct, aAlias) ==
    IF isEmptySelection(newState)
    THEN [threw |-> FALSE, lines |-> << >>, query |-> Some(""),
          notified |-> None]
    ELSE IF mapThrows(newState)
    THEN [threw |-> TRUE, lines |-> << >>, query |-> None, notified |-> None]
    ELSE LET L == queryLines(newState, sDistinct, aAlias)
         IN  [threw |-> FALSE, lines |-> L, query |-> Some(JoinStr(L, "\n")),
              notified |-> Some(newState)]

----------------------------------------------------------------------------
(* FieldSelector *)

\* selectedFields.some(sf => sf.fieldName === name)
isSelected(selectedFields, name) ==
    \E i \in 1..Len(selectedFields) : selectedFields[i].fieldName = name

\* some() reaches an undefined slot before it finds a match: the render of
\* the field selector throws and React unmounts the builder
renderThrows(st, schema) ==
    \E k \in 1..Len(schema) :
        \E j \in 1..Len(st.selectedFields) :
            /\ st.selectedFields[j].js = "undefined"
            /\ \A i \in 1..(j - 1) : st.selectedFields[i].fieldName # schema[k]

----------------------------------------------------------------------------
(* Array helpers used by the handlers; indices are 0-based as in the code *)

\* Array.prototype.filter
RECURSIVE filterOut(_, _)
filterOut(fields, name) ==
    IF Len(fields) = 0 THEN << >>
    ELSE (IF Head(fields).fieldName # name THEN <<Head(fields)>> ELSE << >>)
         \o filterOut(Tail(fields), name)

\* const [removed] = arr.splice(start, 1): the removed element, or undefined
spliceRemoved(arr, start) ==
    IF start < Len(arr) THEN arr[start + 1] ELSE undefined

\* arr after arr.splice(start, 1)
spliceOut(arr, start) ==
    IF start < Len(arr)
    THEN SubSeq(arr, 1, start) \o SubSeq(arr, start + 2, Len(arr))
    ELSE arr

\* arr after arr.splice(at, 0, x): positions past the end clamp to the end
spliceIn(arr, at, x) ==
    LET k == IF at < Len(arr) THEN at ELSE Len(arr)
    IN  SubSeq(arr, 1, k) \o <<x>> \o SubSeq(arr, k + 1, Len(arr))

----------------------------------------------------------------------------
(* QueryBuilder handlers.  Each one calls setState and then compiles with  *)
(* the callback of the render it was created in, so updateQueryFromState   *)
(* reads the pre-edit state.distinct and autoAlias.                        *)

\* common tail of every handler: the new React state, the compile, the render
Commit(op, newState, newAutoAlias) ==
    \E r \in {updateQueryFromState(newState, state.distinct, autoAlias)} :
        /\ state' = newState
        /\ autoAlias' = newAutoAlias
        /\ lastOp' = op
        /\ compiled' = Some([newState |-> newState, distinct |-> state.distinct,
                             autoAlias |-> autoAlias])
        /\ threw' = r.threw
        /\ lines' = r.lines
        /\ query' = r.query
        /\ notified' = r.notified
        /\ mounted' = ~renderThrows(newState, tableSchema)
        /\ UNCHANGED <<tableSchema, parseVars, groupVars, explorerVars,
                     selectorVars>>

\* the Add button offered for every schema field
handleFieldSelect_anyField ==
    /\ mounted
    /\ \E k \in 1..Len(tableSchema) :
        Commit("select",
               [state EXCEPT !.selectedFields =
                   Append(@, QueryField(tableSchema[k], None, None))],
               autoAlias)

\* Add button of a schema field that is not selected
handleFieldSelect ==
    /\ mounted
    /\ \E k \in 1..Len(tableSchema) :
        /\ ~isSelected(state.selectedFields, tableSchema[k])
        /\ Commit("select",
                  [state EXCEPT !.selectedFields =
                      Append(@, QueryField(tableSchema[k], None, None))],
                  autoAlias)

\* Remove button of a schema field that is selected
handleFieldRemove ==
    /\ mounted
    /\ \E k \in 1..Len(tableSchema) :
        /\ isSelected(state.selectedFields, tableSchema[k])
        /\ Commit("remove",
                  [state EXCEPT !.selectedFields = filterOut(@, tableSchema[k])],
                  autoAlias)

\* handleDragEnd then handleFieldReorder: source and destination index are
\* positions in the rendered list, which is the schema field list
handleFieldReorder ==
    /\ mounted
    /\ \E startIndex \in 0..(Len(tableSchema) - 1) :
       \E endIndex \in 0..(Len(tableSchema) - 1) :
        LET removed == spliceRemoved(state.selectedFields, startIndex)
            newFields == spliceIn(spliceOut(state.selectedFields, startIndex),
                                  endIndex, removed)
        IN  Commit("reorder", [state EXCEPT !.selectedFields = newFields],
                   autoAlias)

\* Auto-alias switch: setAutoAlias(checked); updateQueryFromState(state)
handleAutoAliasChange ==
    /\ mounted
    /\ Commit("autoAlias", state, ~autoAlias)

\* Distinct switch
handleDistinctChange ==
    /\ mounted
    /\ Commit("distinct", [state EXCEPT !.distinct = ~state.distinct], autoAlias)

----------------------------------------------------------------------------
(* Inputs: the props the builder is constructed with *)

\* types.d.ts: QueryBuilderState
QueryBuilderState(sel, j, w, g, o, l, off, d) ==
    [selectedFields |-> sel, joins |-> j, where |-> w, groupBy |-> g,
     orderBy |-> o, limit |-> l, offset |-> off, distinct |-> d]

\* names of tableInfo.tableSchema, in rendering order
SchemaNames == <<"a", "a_b", "c", "d">>

FieldSamples ==
    { QueryField("a", None, None),
      QueryField("a", None, Some("main")),
      QueryField("a_b", None, Some("c")),
      QueryField("a", None, Some("b_c")),
      QueryField("a", Some("x"), Some("t")),
      QueryField("c", Some(""), Some("")) }

\* initial selections of at most MaxInitial fields
MaxInitial == 2
Selections == UNION { [1..n -> FieldSamples] : n \in 0..MaxInitial }
PlainSelections == { << >>, <<QueryField("c", None, Some("t"))>> }

WhereCond(f, op, v, isF) ==
    [field |-> f, operator |-> op, value |-> v, isField |-> isF]
WhereClause(conds, conj) == [conditions |-> conds, conjunction |-> conj]
JoinClause(ty, t, ta, conds) ==
    [type |-> ty, table |-> t, tableAlias |-> ta, conditions |-> conds]
JoinCond(l, op, r) == [leftField |-> l, operator |-> op, rightField |-> r]

JoinSamples ==
    { << >>,
      <<JoinClause("LEFT", "u", "t", << >>)>>,
      <<JoinClause("INNER", "u", "t", <<JoinCond("a", "=", "t.a")>>)>>,
      <<JoinClause("INNER", "u", "t",
                   <<JoinCond("a", "=", "t.a"), JoinCond("c", "<", "t.c")>>),
        JoinClause("FULL", "v", "w", <<JoinCond("a", "!=", "w.a")>>)>> }

ConditionSamples ==
    { << >>,
      <<WhereCond("a", "=", StrV("c"), Some(TRUE))>>,
      <<WhereCond("a", "LIKE", StrV("x"), None),
        WhereCond("c", ">", NumV(1), Some(FALSE))>> }

WhereSamples ==
    {None} \cup { Some(WhereClause(c, "AND")) : c \in ConditionSamples }
           \cup { Some(WhereClause(ConditionSamplesTwo, "OR")) :
                    ConditionSamplesTwo \in
                        { c \in ConditionSamples : Len(c) = 2 } }

GroupBySamples ==
    { None,
      Some([fields |-> << >>, having |-> Some(WhereClause(
            <<WhereCond("a", "=", NumV(1), None)>>, "AND"))]),
      Some([fields |-> <<"a">>, having |-> None]),
      Some([fields |-> <<"a">>, having |-> Some(WhereClause(<< >>, "AND"))]),
      Some([fields |-> <<"a", "c">>, having |-> Some(WhereClause(
            <<WhereCond("a", ">", NumV(1), None),
              WhereCond("c", "=", StrV("a"), Some(TRUE))>>, "OR"))]) }

OrderBySamples ==
    { None, Some(<< >>),
      Some(<<[field |-> "a", direction |-> "ASC"],
             [field |-> "c", direction |-> "DESC"]>>) }

\* combinations of joins, where, groupBy and orderBy
ClauseProfiles ==
    { <<j, None, None, None>> : j \in JoinSamples } \cup
    { <<(<< >>), w, None, None>> : w \in WhereSamples } \cup
    { <<(<< >>), None, g, None>> : g \in GroupBySamples } \cup
    { <<(<< >>), None, None, o>> : o \in OrderBySamples } \cup
    { <<j, w, g, o>> : j \in { x \in JoinSamples : Len(x) = 2 },
                       w \in { x \in WhereSamples : x # None },
                       g \in { x \in GroupBySamples : x # None },
                       o \in { x \in OrderBySamples : x # None } }

OptNum == {None} \cup { Some(n) : n \in 0..MaxNum }

\* the initialState prop, or the component's default when it is absent
InitialStates ==
    { QueryBuilderState(sel, << >>, None, None, None, None, None, d) :
        sel \in Selections, d \in BOOLEAN }
    \cup
    { QueryBuilderState(sel, << >>, None, None, None, l, off, d) :
        sel \in PlainSelections, l \in OptNum, off \in OptNum, d \in BOOLEAN }
    \cup
    { QueryBuilderState(sel, p[1], p[2], p[3], p[4], lo, lo, FALSE) :
        sel \in PlainSelections, p \in ClauseProfiles, lo \in {None, Some(1)} }

Init ==
    /\ tableSchema \in { SubSeq(SchemaNames, 1, n) : n \in 1..MaxSchema }
    /\ state \in InitialStates
    /\ autoAlias = TRUE
    /\ mounted = TRUE
    /\ lastOp = "init"
    /\ compiled = None
    /\ threw = FALSE
    /\ lines = << >>
    /\ query = None
    /\ notified = None
    /\ table = << >>
    /\ parsed = None
    /\ GroupIdle
    /\ ExplorerIdle
    /\ SelectorIdle

\* the builder constructed without initialState: nothing is selected
InitFromEmpty ==
    /\ Init
    /\ state = QueryBuilderState(<< >>, << >>, None, None, None, None, None, FALSE)

Next ==
    \/ handleFieldSelect
    \/ handleFieldRemove
    \/ handleFieldReorder
    \/ handleAutoAliasChange
    \/ handleDistinctChange

Spec == Init /\ [][Next]_vars

SpecFromEmpty == InitFromEmpty /\ [][Next]_vars

----------------------------------------------------------------------------
(* TableSelector.parseTableName.  A name is a sequence of one-character    *)
(* strings.                                                                *)

RECURSIVE split(_, _)
\* String.prototype.split on a one-character separator
split(str, sep) ==
    IF \A i \in 1..Len(str) : str[i] # sep THEN <<str>>
    ELSE LET k == CHOOSE i \in 1..Len(str) :
                      str[i] = sep /\ \A j \in 1..(i - 1) : str[j] # sep
         IN  <<SubSeq(str, 1, k - 1)>> \o split(SubSeq(str, k + 1, Len(str)), sep)

RECURSIVE join(_, _)
\* Array.prototype.join on an array of character sequences
join(parts, sep) ==
    IF Len(parts) = 0 THEN << >>
    ELSE IF Len(parts) = 1 THEN parts[1]
    ELSE parts[1] \o <<sep>> \o join(Tail(parts), sep)

DecimalDigit == {"0", "1", "2", "3", "4", "5", "6", "7", "8", "9"}
HexDigit == DecimalDigit \cup {"a", "b", "c", "d", "e", "f",
                               "A", "B", "C", "D", "E", "F"}
OctalDigit == {"0", "1", "2", "3", "4", "5", "6", "7"}
BinaryDigit == {"0", "1"}
StrWhiteSpaceChar == {" ", "\t", "\n", "\r"}

AllIn(str, set) == \A i \in 1..Len(str) : str[i] \in set
DecimalDigits(str) == Len(str) > 0 /\ AllIn(str, DecimalDigit)

RECURSIVE trimStart(_)
trimStart(str) ==
    IF Len(str) > 0 /\ str[1] \in StrWhiteSpaceChar THEN trimStart(Tail(str))
    ELSE str

RECURSIVE trimEnd(_)
trimEnd(str) ==
    IF Len(str) > 0 /\ str[Len(str)] \in StrWhiteSpaceChar
    THEN trimEnd(SubSeq(str, 1, Len(str) - 1))
    ELSE str

\* ECMAScript ExponentPart: e or E, an optional sign, decimal digits
ExponentPart(str) ==
    /\ Len(str) >= 2
    /\ str[1] \in {"e", "E"}
    /\ DecimalDigits(IF str[2] \in {"+", "-"} THEN SubSeq(str, 3, Len(str))
                     ELSE Tail(str))

\* digits, digits '.' [digits], or '.' digits
Mantissa(str) ==
    \/ DecimalDigits(str)
    \/ \E d \in 1..Len(str) :
          /\ str[d] = "."
          /\ LET a == SubSeq(str, 1, d - 1)
                 b == SubSeq(str, d + 1, Len(str))
             IN  /\ a = << >> \/ DecimalDigits(a)
                 /\ b = << >> \/ DecimalDigits(b)
                 /\ ~(a = << >> /\ b = << >>)

\* ECMAScript StrUnsignedDecimalLiteral
StrUnsignedDecimalLiteral(str) ==
    \/ str = <<"I", "n", "f", "i", "n", "i", "t", "y">>
    \/ \E k \in 1..Len(str) :
          /\ Mantissa(SubSeq(str, 1, k))
          /\ k = Len(str) \/ ExponentPart(SubSeq(str, k + 1, Len(str)))

\* ECMAScript NonDecimalIntegerLiteral: 0x.., 0o.., 0b.. (no sign allowed)
NonDecimalIntegerLiteral(str) ==
    /\ Len(str) >= 3
    /\ str[1] = "0"
    /\ LET digits == SubSeq(str, 3, Len(str))
       IN  \/ str[2] \in {"x", "X"} /\ AllIn(digits, HexDigit)
           \/ str[2] \in {"o", "O"} /\ AllIn(digits, OctalDigit)
           \/ str[2] \in {"b", "B"} /\ AllIn(digits, BinaryDigit)

\* isNaN(Number(str)): Number() trims white space, maps the empty string to
\* 0 and anything outside the StringNumericLiteral grammar to NaN
isNaNNumber(str) ==
    LET t == trimEnd(trimStart(str))
        u == IF Len(t) > 0 /\ t[1] \in {"+", "-"} THEN Tail(t) ELSE t
    IN  ~ \/ t = << >>
          \/ NonDecimalIntegerLiteral(t)
          \/ StrUnsignedDecimalLiteral(u)

\* types.d.ts: ParsedTable, with its optional properties
ParsedTable(n, y, m, d, t) ==
    [name |-> n, year |-> y, month |-> m, day |-> d, type |-> t]

\* month and day taken from the wrong segments
parseTableName_swapped(tbl) ==
    LET parts == split(tbl, "_")
    IN  IF /\ Len(parts) >= 3
           /\ ~isNaNNumber(parts[1])
           /\ ~isNaNNumber(parts[2])
           /\ ~isNaNNumber(parts[3])
        THEN ParsedTable(tbl, Some(parts[1]), Some(parts[3]), Some(parts[2]),
                         Some(join(SubSeq(parts, 4, Len(parts)), "_")))
        ELSE ParsedTable(tbl, None, None, None, None)

parseTableName(tbl) ==
    LET parts == split(tbl, "_")
    IN  IF /\ Len(parts) >= 3
           /\ ~isNaNNumber(parts[1])
           /\ ~isNaNNumber(parts[2])
           /\ ~isNaNNumber(parts[3])
        THEN ParsedTable(tbl, Some(parts[1]), Some(parts[2]), Some(parts[3]),
                         Some(join(SubSeq(parts, 4, Len(parts)), "_")))
        ELSE ParsedTable(tbl, None, None, None, None)

\* one call of parseTableName, as made for every entry of the tables prop
ParseTable ==
    /\ parsed = None
    /\ parsed' = Some(parseTableName(table))
    /\ UNCHANGED <<builderVars, table, groupVars, explorerVars,
                     selectorVars>>

\* segments the explored table names are built from
SegmentSamples ==
    { << >>,
      <<"2", "0", "2", "4">>, <<"0", "3">>, <<"1", "3">>, <<"7">>,
      <<"-", "5">>, <<"1", ".", "5">>, <<"1", "e", "3">>,
      <<"0", "x", "1", "F">>, <<" ", "1", "2">>,
      <<"s", "a", "l", "e", "s">>, <<"1", "a">> }

\* table names of at most MaxSegments underscore-delimited segments
MaxSegments == 4
TableNames ==
    { join(p, "_") : p \in UNION { [1..n -> SegmentSamples] : n \in 1..MaxSegments } }

\* dated names whose type part spans several segments
LongTableNames ==
    { <<"2", "0", "2", "4", "_", "0", "3", "_", "1", "5", "_",
        "s", "a", "l", "e", "s", "_", "e", "u">>,
      <<"2", "0", "2", "4", "_", "1", "3", "_", "0", "_",
        "a", "_", "_", "b", "_">> }

InitParse ==
    /\ table \in TableNames \cup LongTableNames
    /\ parsed = None
    /\ tableSchema = << >>
    /\ state = QueryBuilderState(<< >>, << >>, None, None, None, None, None, FALSE)
    /\ autoAlias = TRUE
    /\ mounted = TRUE
    /\ lastOp = "init"
    /\ compiled = None
    /\ threw = FALSE
    /\ lines = << >>
    /\ query = None
    /\ notified = None
    /\ GroupIdle
    /\ ExplorerIdle
    /\ SelectorIdle

NextParse == ParseTable

SpecParse == InitParse /\ [][NextParse]_vars

----------------------------------------------------------------------------
(* JavaScript strings, objects and sorting as Explorer.tsx uses them.      *)
(* Strings are sequences of one-character strings.  An object is the       *)
(* sequence of its [k, v] entries in insertion order.                      *)

UpperCase == <<"A", "B", "C", "D", "E", "F", "G", "H", "I", "J", "K", "L", "M",
               "N", "O", "P", "Q", "R", "S", "T", "U", "V", "W", "X", "Y", "Z">>
LowerCase == <<"a", "b", "c", "d", "e", "f", "g", "h", "i", "j", "k", "l", "m",
               "n", "o", "p", "q", "r", "s", "t", "u", "v", "w", "x", "y", "z">>

IsUpper(c) == \E i \in 1..26 : UpperCase[i] = c
IsLower(c) == \E i \in 1..26 : LowerCase[i] = c

\* String.prototype.toUpperCase / toLowerCase of one character
charToUpperCase(c) ==
    IF IsLower(c) THEN UpperCase[CHOOSE i \in 1..26 : LowerCase[i] = c] ELSE c
charToLowerCase(c) ==
    IF IsUpper(c) THEN LowerCase[CHOOSE i \in 1..26 : UpperCase[i] = c] ELSE c

toLowerCase(str) == [i \in 1..Len(str) |-> charToLowerCase(str[i])]

\* String.prototype.startsWith / endsWith / includes
startsWith(str, prefix) ==
    Len(prefix) <= Len(str) /\ SubSeq(str, 1, Len(prefix)) = prefix
endsWith(str, suffix) ==
    Len(suffix) <= Len(str)
        /\ SubSeq(str, Len(str) - Len(suffix) + 1, Len(str)) = suffix
includes(str, part) ==
    \E i \in 0..(Len(str) - Len(part)) : SubSeq(str, i + 1, i + Len(part)) = part

DigitValue(c) ==
    CASE c = "0" -> 0 [] c = "1" -> 1 [] c = "2" -> 2 [] c = "3" -> 3
      [] c = "4" -> 4 [] c = "5" -> 5 [] c = "6" -> 6 [] c = "7" -> 7
      [] c = "8" -> 8 [] c = "9" -> 9

RECURSIVE DigitsValue(_)
\* the number a string of decimal digits denotes
DigitsValue(str) ==
    IF Len(str) = 0 THEN 0
    ELSE 10 * DigitsValue(SubSeq(str, 1, Len(str) - 1)) + DigitValue(str[Len(str)])

\* parseInt(str, 10): white space and a sign are skipped, the longest prefix
\* of digits is read; None stands for NaN
parseInt10(str) ==
    LET t == trimStart(str)
        neg == Len(t) > 0 /\ t[1] = "-"
        u == IF Len(t) > 0 /\ t[1] \in {"+", "-"} THEN Tail(t) ELSE t
        n == CHOOSE k \in 0..Len(u) :
                 /\ AllIn(SubSeq(u, 1, k), DecimalDigit)
                 /\ k < Len(u) => u[k + 1] \notin DecimalDigit
    IN  IF n = 0 THEN None
        ELSE Some(IF neg THEN 0 - DigitsValue(SubSeq(u, 1, n))
                  ELSE DigitsValue(SubSeq(u, 1, n)))

\* a property key that is an array index: a canonical numeric string
\* (the explored keys stay far below 2^32 - 1)
IsArrayIndex(key) ==
    DecimalDigits(key) /\ (key[1] # "0" \/ Len(key) = 1)

\* Array.prototype.sort with a consistent comparator: the stable ordering
Sorted(seq, Cmp(_, _)) ==
    LET n == Len(seq)
        before(i, j) ==
            Cmp(seq[i], seq[j]) < 0 \/ (Cmp(seq[i], seq[j]) = 0 /\ i < j)
        rank(i) == 1 + Cardinality({ j \in 1..n : j # i /\ before(j, i) })
    IN  [k \in 1..n |-> seq[CHOOSE i \in 1..n : rank(i) = k]]

\* Object.entries: array-index keys first in ascending numeric order, then
\* the other string keys in insertion order
ObjectEntries(obj) ==
    LET n == Len(obj)
        before(i, j) ==
            IF IsArrayIndex(obj[i].k)
            THEN IsArrayIndex(obj[j].k) =>
                     DigitsValue(obj[i].k) < DigitsValue(obj[j].k)
            ELSE ~IsArrayIndex(obj[j].k) /\ i < j
        rank(i) == 1 + Cardinality({ j \in 1..n : j # i /\ before(j, i) })
    IN  [k \in 1..n |-> obj[CHOOSE i \in 1..n : rank(i) = k]]

\* Object.fromEntries of entries with distinct keys: inserted in array order
ObjectFromEntries(entries) == entries

HasKey(obj, key) == \E i \in 1..Len(obj) : obj[i].k = key
Get(obj, key) == obj[CHOOSE i \in 1..Len(obj) : obj[i].k = key].v
\* obj[key] = value
Put(obj, key, value) ==
    IF HasKey(obj, key)
    THEN [i \in 1..Len(obj) |->
             IF obj[i].k = key THEN [k |-> key, v |-> value] ELSE obj[i]]
    ELSE Append(obj, [k |-> key, v |-> value])

\* primary collation order of the characters that occur in the explored
\* names (CLDR root order: white space, punctuation, digits, letters)
CollationOrder ==
    <<" ", "_", "-", "!", ".", "0", "1", "2", "3", "4", "5", "6", "7", "8",
      "9">> \o LowerCase
Primary(c) ==
    CHOOSE i \in 1..Len(CollationOrder) : CollationOrder[i] = charToLowerCase(c)

Sign(b) == IF b THEN 0 - 1 ELSE 1

\* a.localeCompare(b): primary differences decide first, then length, then
\* case (lower case before upper case)
localeCompare(a, b) ==
    LET m == IF Len(a) < Len(b) THEN Len(a) ELSE Len(b)
        P == { i \in 1..m : Primary(a[i]) # Primary(b[i]) }
        T == { i \in 1..m : a[i] # b[i] }
        first(set) == CHOOSE i \in set : \A j \in set : i <= j
    IN  IF P # {} THEN Sign(Primary(a[first(P)]) < Primary(b[first(P)]))
        ELSE IF Len(a) # Len(b) THEN Sign(Len(a) < Len(b))
        ELSE IF T # {} THEN Sign(IsLower(a[first(T)]))
        ELSE 0

----------------------------------------------------------------------------
(* Explorer.groupTablesByDate *)

\* two segments taken as enough
addTable_twoParts(groups, tbl) ==
    LET parts == split(tbl, "_")
        year == parts[1]
        month == parts[2]
        months == IF HasKey(groups, year) THEN Get(groups, year) ELSE << >>
        list == IF HasKey(months, month) THEN Get(months, month) ELSE << >>
    IN  IF Len(parts) >= 2
        THEN Put(groups, year, Put(months, month, Append(list, tbl)))
        ELSE groups

\* the body of the forEach callback: groups after one more table
addTable(groups, tbl) ==
    LET parts == split(tbl, "_")
        year == parts[1]
        month == parts[2]
        months == IF HasKey(groups, year) THEN Get(groups, year) ELSE << >>
        list == IF HasKey(months, month) THEN Get(months, month) ELSE << >>
    IN  IF Len(parts) >= 3
        THEN Put(groups, year, Put(months, month, Append(list, tbl)))
        ELSE groups

RECURSIVE tableGroupsOf(_)
\* groups after tables.forEach
tableGroupsOf(tbls) ==
    IF Len(tbls) = 0 THEN << >>
    ELSE addTable(tableGroupsOf(SubSeq(tbls, 1, Len(tbls) - 1)), tbls[Len(tbls)])

\* (a, b) => b[0].localeCompare(a[0])
yearCompare(a, b) == localeCompare(b.k, a.k)

\* (a, b) => parseInt(b[0], 10) - parseInt(a[0], 10); a NaN result counts as 0
monthCompare(a, b) ==
    IF IsSet(parseInt10(a.k)) /\ IsSet(parseInt10(b.k))
    THEN Val(parseInt10(b.k)) - Val(parseInt10(a.k))
    ELSE 0

\* the months object of one year: entries sorted, then Object.fromEntries
sortedMonths(months) ==
    ObjectFromEntries(Sorted(ObjectEntries(months), monthCompare))

groupTablesByDate(tbls) ==
    LET years == Sorted(ObjectEntries(tableGroupsOf(tbls)), yearCompare)
    IN  [i \in 1..Len(years) |->
            [year |-> years[i].k, months |-> sortedMonths(years[i].v)]]

\* one call of groupTablesByDate on the fetched table list
GroupTablesByDate ==
    /\ tableGroups = None
    /\ tableGroups' = Some(groupTablesByDate(tables))
    /\ UNCHANGED <<builderVars, parseVars, tables, datasets, datasetGroups,
                   explorerVars, selectorVars>>

\* table names of the explored table lists; a name whose month segment is
\* not numeric has a year of its own, so that monthCompare stays consistent
TableSamples ==
    { <<"2", "0", "2", "4", "_", "0", "1", "_", "a">>,
      <<"2", "0", "2", "4", "_", "0", "2", "_", "b">>,
      <<"2", "0", "2", "3", "_", "1", "2", "_", "c">>,
      <<"2", "0", "2", "4", "_", "0", "9", "_", "0", "5", "_", "x">>,
      <<"2", "0", "2", "4", "_", "1", "0", "_", "0", "1", "_", "x">>,
      <<"2", "0", "2", "4", "_", "1", "1", "_", "a">>,
      <<"2", "0", "2", "4", "_", "7", "_", "1">>,
      <<"r", "a", "n", "d", "o", "m", "_", "t", "a", "b", "l", "e">>,
      <<"a", "b", "c", "_", "d", "e", "f", "_", "g", "h", "i">>,
      <<"s", "i", "n", "g", "l", "e">> }

\* table lists of at most MaxTables names
MaxTables == 3
TableLists == UNION { [1..n -> TableSamples] : n \in 0..MaxTables }

InitGroupTables ==
    /\ tables \in TableLists
    /\ tableGroups = None
    /\ datasets = << >>
    /\ datasetGroups = None
    /\ tableSchema = << >>
    /\ state = QueryBuilderState(<< >>, << >>, None, None, None, None, None, FALSE)
    /\ autoAlias = TRUE
    /\ mounted = TRUE
    /\ lastOp = "init"
    /\ compiled = None
    /\ threw = FALSE
    /\ lines = << >>
    /\ query = None
    /\ notified = None
    /\ ParseIdle
    /\ ExplorerIdle
    /\ SelectorIdle

NextGroupTables == GroupTablesByDate

SpecGroupTables == InitGroupTables /\ [][NextGroupTables]_vars

----------------------------------------------------------------------------
(* Explorer.groupDatasets *)

\* prefixMap, in declaration order
prefixMap ==
    <<[k |-> <<"d", "o", "c", "k", "e", "r", "_", "l", "i", "s", "t", "i", "n", "g", "s">>,
       v |-> <<"D", "o", "c", "k", "e", "r", " ", "L", "i", "s", "t", "i", "n", "g", "s">>],
      [k |-> <<"d", "o", "c", "k", "e", "r", "_", "p", "r", "o", "d", "u", "c", "t">>,
       v |-> <<"D", "o", "c", "k", "e", "r", " ", "P", "r", "o", "d", "u", "c", "t", "s">>],
      [k |-> <<"d", "o", "c", "k", "e", "r", "_", "s", "e", "l", "l", "e", "r", "s">>,
       v |-> <<"D", "o", "c", "k", "e", "r", " ", "S", "e", "l", "l", "e", "r", "s">>],
      [k |-> <<"c", "k">>,
       v |-> <<"C", "a", "r", "d", " ", "K", "i", "n", "g", "d", "o", "m">>],
      [k |-> <<"f", "a", "b">>,
       v |-> <<"F", "l", "e", "s", "h", " ", "a", "n", "d", " ", "B", "l", "o", "o", "d">>],
      [k |-> <<"m", "t", "g">>,
       v |-> <<"M", "a", "g", "i", "c", " ", "t", "h", "e", " ", "G", "a", "t", "h", "e", "r", "i", "n", "g">>],
      [k |-> <<"p", "o", "k", "e">>,
       v |-> <<"P", "o", "k", "e", "m", "o", "n">>],
      [k |-> <<"b", "a", "n">>,
       v |-> <<"B", "A", "N">>],
      [k |-> <<"y", "u", "g", "i">>,
       v |-> <<"Y", "u", "-", "G", "i", "-", "O", "h", "!">>],
      [k |-> <<"y", "u", "g", "i", "o", "h">>,
       v |-> <<"Y", "u", "-", "G", "i", "-", "O", "h", "!">>]>>

Other == <<"O", "t", "h", "e", "r">>

\* prefix.charAt(0).toUpperCase() + prefix.slice(1)
capitalize(prefix) ==
    IF Len(prefix) = 0 THEN << >>
    ELSE <<charToUpperCase(prefix[1])>> \o Tail(prefix)

\* the derived category tried before the prefix table
classifyDataset_derivedFirst(dataset) ==
    LET entries == ObjectEntries(prefixMap)
        matching == { i \in 1..Len(entries) : startsWith(dataset, entries[i].k) }
    IN  IF includes(dataset, <<"_">>) THEN capitalize(split(dataset, "_")[1])
        ELSE IF matching # {}
        THEN entries[CHOOSE i \in matching : \A j \in matching : i <= j].v
        ELSE Other

\* the derived category left in lower case
classifyDataset_noCapital(dataset) ==
    LET entries == ObjectEntries(prefixMap)
        matching == { i \in 1..Len(entries) : startsWith(dataset, entries[i].k) }
    IN  IF matching # {}
        THEN entries[CHOOSE i \in matching : \A j \in matching : i <= j].v
        ELSE IF includes(dataset, <<"_">>) THEN split(dataset, "_")[1]
        ELSE Other

\* the category the forEach callback computes for one dataset: the loop stops
\* at the first entry of prefixMap the name starts with
classifyDataset(dataset) ==
    LET entries == ObjectEntries(prefixMap)
        matching == { i \in 1..Len(entries) : startsWith(dataset, entries[i].k) }
    IN  IF matching # {}
        THEN entries[CHOOSE i \in matching : \A j \in matching : i <= j].v
        ELSE IF includes(dataset, <<"_">>) THEN capitalize(split(dataset, "_")[1])
        ELSE Other

\* the category's list started anew for every dataset
addDataset_overwrite(groups, dataset) ==
    Put(groups, classifyDataset(dataset), <<dataset>>)

\* groups after one more dataset
addDataset(groups, dataset) ==
    LET category == classifyDataset(dataset)
        list == IF HasKey(groups, category) THEN Get(groups, category) ELSE << >>
    IN  Put(groups, category, Append(list, dataset))

RECURSIVE datasetGroupsOf(_)
\* groups after datasets.forEach
datasetGroupsOf(dsets) ==
    IF Len(dsets) = 0 THEN << >>
    ELSE addDataset(datasetGroupsOf(SubSeq(dsets, 1, Len(dsets) - 1)),
                    dsets[Len(dsets)])

\* UTF-16 code unit order of the characters that occur in the explored names
CodeUnitOrder ==
    <<" ", "!", "-", ".", "0", "1", "2", "3", "4", "5", "6", "7", "8", "9">>
    \o UpperCase \o <<"_">> \o LowerCase
CodeUnit(c) == CHOOSE i \in 1..Len(CodeUnitOrder) : CodeUnitOrder[i] = c

\* the default comparator of Array.prototype.sort() on strings
codeUnitCompare(a, b) ==
    LET m == IF Len(a) < Len(b) THEN Len(a) ELSE Len(b)
        D == { i \in 1..m : a[i] # b[i] }
        d == CHOOSE i \in D : \A j \in D : i <= j
    IN  IF D # {} THEN Sign(CodeUnit(a[d]) < CodeUnit(b[d]))
        ELSE IF Len(a) # Len(b) THEN Sign(Len(a) < Len(b))
        ELSE 0

\* 'Other' not singled out
categoryCompare_plain(a, b) == localeCompare(a.k, b.k)

\* the comparator of the category sort
categoryCompare(a, b) ==
    IF a.k = Other THEN 1
    ELSE IF b.k = Other THEN 0 - 1
    ELSE localeCompare(a.k, b.k)

groupDatasets(dsets) ==
    LET sorted == Sorted(ObjectEntries(datasetGroupsOf(dsets)), categoryCompare)
    IN  [i \in 1..Len(sorted) |->
            [category |-> sorted[i].k,
             datasets |-> Sorted(sorted[i].v, codeUnitCompare)]]

\* one call of groupDatasets on the fetched dataset list
GroupDatasets ==
    /\ datasetGroups = None
    /\ datasetGroups' = Some(groupDatasets(datasets))
    /\ UNCHANGED <<builderVars, parseVars, tables, tableGroups, datasets,
                   explorerVars, selectorVars>>

DatasetSamples ==
    { <<"o", "t", "h", "e", "r", "_", "t", "h", "i", "n", "g">>,
      <<"m", "i", "s", "c">>,
      <<"y", "u", "g", "i", "o", "h", "_", "s", "e", "t", "s">>,
      <<"d", "o", "c", "k", "e", "r", "_", "l", "i", "s", "t", "i", "n", "g", "s", "_", "v", "2">>,
      <<"b", "a", "n", "a", "n", "a">>,
      <<"Z", "e", "d", "_", "1">>,
      <<"_", "x">> }

\* dataset lists of at most MaxDatasets names
MaxDatasets == 3
DatasetLists == UNION { [1..n -> DatasetSamples] : n \in 0..MaxDatasets }

InitGroupDatasets ==
    /\ datasets \in DatasetLists
    /\ datasetGroups = None
    /\ tables = << >>
    /\ tableGroups = None
    /\ tableSchema = << >>
    /\ state = QueryBuilderState(<< >>, << >>, None, None, None, None, None, FALSE)
    /\ autoAlias = TRUE
    /\ mounted = TRUE
    /\ lastOp = "init"
    /\ compiled = None
    /\ threw = FALSE
    /\ lines = << >>
    /\ query = None
    /\ notified = None
    /\ ParseIdle
    /\ ExplorerIdle
    /\ SelectorIdle

NextGroupDatasets == GroupDatasets

SpecGroupDatasets == InitGroupDatasets /\ [][NextGroupDatasets]_vars

----------------------------------------------------------------------------
(* Explorer.insertFieldIntoQuery *)

\* the character U+0060 (grave accent) of the template literal
Backtick == "U+0060"

\* truthiness of an optional string
Truthy(opt) == IsSet(opt) /\ Len(Val(opt)) > 0

trim(str) == trimStart(trimEnd(str))

select == <<"s", "e", "l", "e", "c", "t">>

\* the result text always the query, a comma and a new line
newText_alwaysComma(q, dataset, tbl, fieldName) ==
    LET prefix == IF Truthy(dataset) /\ Truthy(tbl)
                  THEN <<Backtick>> \o Val(dataset) \o <<".">> \o Val(tbl) \o <<Backtick>>
                  ELSE << >>
    IN  q \o <<",", "\n", " ", " ">> \o prefix \o <<".">> \o fieldName

\* the text insertFieldIntoQuery hands to setQuery
newText(q, dataset, tbl, fieldName) ==
    LET prefix == IF Truthy(dataset) /\ Truthy(tbl)
                  THEN <<Backtick>> \o Val(dataset) \o <<".">> \o Val(tbl) \o <<Backtick>>
                  ELSE << >>
        isNewSelect == ~includes(toLowerCase(q), select)
        hasExistingFields ==
            /\ includes(toLowerCase(q), select)
            /\ ~endsWith(trim(toLowerCase(q)), select)
    IN  IF Len(q) > 0
        THEN IF isNewSelect
             THEN <<"S", "E", "L", "E", "C", "T", " ">> \o prefix \o <<".">> \o fieldName
             ELSE IF hasExistingFields
                  THEN q \o <<",", "\n", " ", " ">> \o prefix \o <<".">> \o fieldName
                  ELSE q \o <<" ">> \o prefix \o <<".">> \o fieldName
        ELSE <<"S", "E", "L", "E", "C", "T", " ">> \o prefix \o <<".">> \o fieldName

DatasetNames == { <<"d">>, <<"e">> }
ExplorerTableNames == { <<"t">> }
ExplorerFieldNames ==
    { <<"i", "d">>, <<"n">>,
      <<"x", "s", "e", "l", "e", "c", "t">> }
EditorTexts ==
    { <<"f", "o", "o">>,
      <<" ">>,
      <<"S", "E", "L", "E", "C", "T">>,
      <<"s", "e", "l", "e", "c", "t", " ">>,
      <<"S", "e", "l", "e", "c", "t", " ", "a">>,
      <<"s", "e", "l", "e", "c", "t", " ", "m", "y", "s", "e", "l", "e", "c", "t">>,
      << >> }

\* the longest query a field is still inserted into
MaxQueryLen == 20

\* the fields clicked one after another since the query was empty, with no
\* edit or selection in between; empty when the query did not start empty
clickedAfter(fieldName) ==
    IF explorerQuery = << >> THEN <<fieldName>>
    ELSE IF IsSet(inserted) /\ Len(Val(inserted).clicked) > 0
    THEN Append(Val(inserted).clicked, fieldName)
    ELSE << >>

\* a click on a field of the schema panel
insertFieldIntoQuery ==
    /\ Len(explorerQuery) <= MaxQueryLen
    /\ \E fieldName \in ExplorerFieldNames :
          /\ explorerQuery' =
                newText(explorerQuery, selectedDataset, selectedTable, fieldName)
          /\ inserted' = Some([query |-> explorerQuery, fieldName |-> fieldName,
                               dataset |-> selectedDataset,
                               table |-> selectedTable,
                               clicked |-> clickedAfter(fieldName)])
    /\ UNCHANGED <<builderVars, parseVars, groupVars, selectorVars,
                   selectedDataset,
                   selectedTable>>

\* a click on a dataset of the sidebar (out of reach while the modal is open)
setSelectedDataset ==
    /\ selectedMonth = None
    /\ \E dataset \in DatasetNames : selectedDataset' = Some(dataset)
    /\ inserted' = None
    /\ UNCHANGED <<builderVars, parseVars, groupVars, selectorVars,
                   selectedTable,
                   explorerQuery>>

\* a table picked in the table selector
setSelectedTable ==
    /\ \E tbl \in ExplorerTableNames : selectedTable' = Some(tbl)
    /\ inserted' = None
    /\ UNCHANGED <<builderVars, parseVars, groupVars, selectorVars,
                   selectedDataset,
                   explorerQuery>>

\* the editor replaces the query text
setQuery ==
    /\ \E text \in EditorTexts : explorerQuery' = text
    /\ inserted' = None
    /\ UNCHANGED <<builderVars, parseVars, groupVars, selectorVars,
                   selectedDataset,
                   selectedTable>>

InitInsert ==
    /\ selectedDataset = None
    /\ selectedTable = None
    /\ explorerQuery = << >>
    /\ inserted = None
    /\ tableSchema = << >>
    /\ state = QueryBuilderState(<< >>, << >>, None, None, None, None, None, FALSE)
    /\ autoAlias = TRUE
    /\ mounted = TRUE
    /\ lastOp = "init"
    /\ compiled = None
    /\ threw = FALSE
    /\ lines = << >>
    /\ query = None
    /\ notified = None
    /\ ParseIdle
    /\ GroupIdle
    /\ SelectorIdle

NextInsert ==
    \/ insertFieldIntoQuery
    \/ setSelectedDataset
    \/ setSelectedTable
    \/ setQuery

SpecInsert == InitInsert /\ [][NextInsert]_vars

----------------------------------------------------------------------------
(* TableSelector: the modal Explorer opens for one month of one dataset *)

\* the table list the server returns for each dataset
DatasetTables(dataset) ==
    IF dataset = <<"d">>
    THEN << <<"2", "0", "2", "4", "_", "0", "1", "_", "0", "5", "_", "x">>,
            <<"2", "0", "2", "4", "_", "0", "1", "_", "0", "6", "_", "y">>,
            <<"2", "0", "2", "4", "_", "0", "1", "_", "a">>,
            <<"2", "0", "2", "4", "_", "0", "2", "_", "0", "1", "_", "z">> >>
    ELSE << <<"2", "0", "2", "3", "_", "1", "2", "_", "0", "1", "_", "u">> >>

\* the tables arrays of the month buttons rendered for the dataset
MonthTables(dataset) ==
    LET G == groupTablesByDate(DatasetTables(dataset))
    IN  UNION { { ObjectEntries(G[i].months)[j].v :
                    j \in 1..Len(ObjectEntries(G[i].months)) } :
                i \in 1..Len(G) }

\* `${x}` of an optional string
templateStr(o) == IF IsSet(o) THEN Val(o) ELSE <<"u", "n", "d", "e", "f", "i", "n", "e", "d">>

\* the filter callback of filteredTables
matchesSearch(t, srch) ==
    LET searchLower == toLowerCase(srch)
    IN  \/ includes(toLowerCase(t.name), searchLower)
        \/ (IsSet(t.type) /\ includes(toLowerCase(Val(t.type)), searchLower))
        \/ includes(templateStr(t.year) \o <<"-">> \o templateStr(t.month)
                        \o <<"-">> \o templateStr(t.day), searchLower)

RECURSIVE filterSearch(_, _)
filterSearch(ts, srch) ==
    IF Len(ts) = 0 THEN << >>
    ELSE (IF matchesSearch(Head(ts), srch) THEN <<Head(ts)>> ELSE << >>)
         \o filterSearch(Tail(ts), srch)

\* the sort callback of filteredTables
tableCompare(a, b) ==
    IF Truthy(a.year) /\ Truthy(b.year)
    THEN localeCompare(b.name, a.name)
    ELSE localeCompare(a.name, b.name)

filteredTables(tbls, srch) ==
    Sorted(filterSearch([i \in 1..Len(tbls) |-> parseTableName(tbls[i])], srch),
           tableCompare)

\* the props Explorer passes: isOpen and tables
isOpen == IsSet(selectedMonth)
tablesProp == IF IsSet(selectedMonth) THEN Val(selectedMonth) ELSE << >>

Min(a, b) == IF a < b THEN a ELSE b
Max(a, b) == IF a > b THEN a ELSE b

\* filteredTables[selectedIndex], None when there is no such entry
entryAt(list, index) ==
    IF index >= 0 /\ index < Len(list) THEN Some(list[index + 1]) ELSE None

\* a click on a month of the tables panel
openMonth ==
    /\ selectedMonth = None
    /\ IsSet(selectedDataset)
    /\ \E tbls \in MonthTables(Val(selectedDataset)) : selectedMonth' = Some(tbls)
    /\ keyed' = None
    /\ UNCHANGED <<builderVars, parseVars, groupVars, explorerVars, search,
                   selectedIndex>>

SearchTexts ==
    { << >>, <<"X">>, <<"0", "6">>, <<"z", "z">>, <<"u", "n", "d">> }

\* the search input changes; the effect on [search] resets the selection
setSearch ==
    /\ isOpen
    /\ \E text \in SearchTexts \ {search} :
          /\ search' = text
          /\ selectedIndex' = 0
    /\ keyed' = None
    /\ UNCHANGED <<builderVars, parseVars, groupVars, explorerVars,
                   selectedMonth>>

Keys == {"ArrowDown", "ArrowUp", "Enter", "Escape", "a"}

onSelectCall(name) == [f |-> "onSelect", arg |-> Some(name)]
onCloseCall == [f |-> "onClose", arg |-> None]

\* Enter acting on the first row whatever the selection is
keydownCalls_firstRow(key, list) ==
    IF key = "Enter"
    THEN (IF IsSet(entryAt(list, 0))
          THEN <<onSelectCall(Val(entryAt(list, 0)).name), onCloseCall>>
          ELSE << >>)
    ELSE IF key = "Escape" THEN <<onCloseCall>>
    ELSE << >>

\* selectedIndex after the handler's setSelectedIndex updater, if any
keydownIndex(key, list) ==
    IF key = "ArrowDown" THEN Min(selectedIndex + 1, Len(list) - 1)
    ELSE IF key = "ArrowUp" THEN Max(selectedIndex - 1, 0)
    ELSE selectedIndex

\* the callbacks the handler calls, in call order
keydownCalls(key, list) ==
    IF key = "Enter"
    THEN (IF IsSet(entryAt(list, selectedIndex))
          THEN <<onSelectCall(Val(entryAt(list, selectedIndex)).name),
                 onCloseCall>>
          ELSE << >>)
    ELSE IF key = "Escape" THEN <<onCloseCall>>
    ELSE << >>

\* a key press reaching the window listener
keydown ==
    \E key \in Keys :
        LET list == filteredTables(tablesProp, search)
            calls == IF isOpen THEN keydownCalls(key, list) ELSE << >>
        IN  /\ keyed' = Some([key |-> key, isOpen |-> isOpen,
                              filteredTables |-> list,
                              selectedIndex |-> selectedIndex,
                              calls |-> calls])
            /\ selectedIndex' =
                  IF isOpen THEN keydownIndex(key, list) ELSE selectedIndex
            /\ selectedTable' =
                  IF \E c \in 1..Len(calls) : calls[c].f = "onSelect"
                  THEN calls[1].arg ELSE selectedTable
            /\ selectedMonth' =
                  IF \E c \in 1..Len(calls) : calls[c].f = "onClose"
                  THEN None ELSE selectedMonth
            /\ UNCHANGED <<builderVars, parseVars, groupVars, selectedDataset,
                           explorerQuery, inserted, search>>

\* a click on a row of the list: onSelect(table.name); onClose()
clickTable ==
    /\ isOpen
    /\ \E i \in 1..Len(filteredTables(tablesProp, search)) :
          selectedTable' = Some(filteredTables(tablesProp, search)[i].name)
    /\ selectedMonth' = None
    /\ keyed' = None
    /\ UNCHANGED <<builderVars, parseVars, groupVars, selectedDataset,
                   explorerQuery, inserted, search, selectedIndex>>

\* the close button or a click on the overlay
closeModal ==
    /\ isOpen
    /\ selectedMonth' = None
    /\ keyed' = None
    /\ UNCHANGED <<builderVars, parseVars, groupVars, explorerVars, search,
                   selectedIndex>>

InitSelector ==
    /\ SelectorIdle
    /\ ExplorerIdle
    /\ tableSchema = << >>
    /\ state = QueryBuilderState(<< >>, << >>, None, None, None, None, None, FALSE)
    /\ autoAlias = TRUE
    /\ mounted = TRUE
    /\ lastOp = "init"
    /\ compiled = None
    /\ threw = FALSE
    /\ lines = << >>
    /\ query = None
    /\ notified = None
    /\ table = << >>
    /\ parsed = None
    /\ GroupIdle

NextSelector ==
    \/ setSelectedDataset
    \/ openMonth
    \/ setSearch
    \/ keydown
    \/ clickTable
    \/ closeModal

SpecSelector == InitSelector /\ [][NextSelector]_vars

----------------------------------------------------------------------------
(* Properties of the query compiler (updateQueryFromState) *)

\* the state value handed to the last compile, and what that compile read
Arg == Val(compiled).newState
Delivered == IsSet(compiled) /\ IsSet(query)
DeliveredSelect == Delivered /\ Len(Arg.selectedFields) > 0

HasLine(set) == \E i \in 1..Len(lines) : lines[i] \in set
LimitLineTexts == { "LIMIT " \o ToString(n) : n \in 0..MaxNum }
OffsetLineTexts == { "OFFSET " \o ToString(n) : n \in 0..MaxNum }

\* C1: a compile of a state whose selectedFields is empty delivers the empty
\* string as the query text, whatever the other clauses are, and builds no
\* SELECT text at all.
C1_EmptySelectionGivesEmptyText ==
    (IsSet(compiled) /\ Len(Arg.selectedFields) = 0)
        => (query = Some("") /\ lines = << >>)

\* an empty selection carrying a limit has been compiled
C1_Witness ==
    /\ IsSet(compiled) /\ Len(Arg.selectedFields) = 0
    /\ IsSet(Arg.limit) /\ query = Some("")

\* C2: with a non-empty selection the text has DISTINCT right after SELECT
\* exactly when the distinct flag of the state passed to that compile is true.
C2_DistinctIffFlagOfCompiledState ==
    DeliveredSelect => ((lines[1] = "SELECT DISTINCT") <=> Arg.distinct)

\* C3: an OFFSET line appears only if the compiled state has both limit and
\* offset set; a state with offset set and limit unset yields no OFFSET line.
C3_OffsetOnlyWithLimit ==
    /\ HasLine(OffsetLineTexts) =>
          (IsSet(compiled) /\ IsSet(Arg.limit) /\ IsSet(Arg.offset))
    /\ (DeliveredSelect /\ IsSet(Arg.offset) /\ ~IsSet(Arg.limit))
          => ~HasLine(OffsetLineTexts)

\* a non-empty selection with offset set and limit unset has been compiled
C3_Witness ==
    /\ DeliveredSelect /\ IsSet(Arg.offset) /\ Val(Arg.offset) > 0
    /\ ~IsSet(Arg.limit) /\ Len(lines) > 0

\* C4: with a non-empty selection the text has a LIMIT line exactly when
\* limit is set (0 included) and an OFFSET line whenever limit and offset are
\* both set (0 included).
C4_LimitIffSet ==
    DeliveredSelect =>
        /\ HasLine(LimitLineTexts) <=> IsSet(Arg.limit)
        /\ (IsSet(Arg.limit) /\ IsSet(Arg.offset)) => HasLine(OffsetLineTexts)

\* the SELECT list of the last compile is one line per selected field, in list
\* order, each rendered by Entry, and is followed by the FROM line
SelectListIs(Entry(_, _)) ==
    DeliveredSelect =>
        LET n == Len(Arg.selectedFields)
        IN  /\ Len(lines) >= n + 2
            /\ lines[1] \in {"SELECT", "SELECT DISTINCT"}
            /\ lines[n + 2] = "FROM ${TABLE}"
            /\ \A i \in 1..n :
                  lines[i + 1] =
                      "  " \o Entry(Arg.selectedFields[i], Val(compiled).autoAlias)
                           \o (IF i < n THEN "," ELSE "")

\* the entry as the claim words it: "set" and "present" mean not undefined
EntryWhenSet(f, aa) ==
    (IF IsSet(f.tableAlias) THEN Val(f.tableAlias) \o "." \o f.fieldName
     ELSE f.fieldName) \o
    (IF aa
     THEN " AS " \o (IF IsSet(f.alias) THEN Val(f.alias)
                     ELSE f.fieldName \o "_" \o
                          (IF IsSet(f.tableAlias) THEN Val(f.tableAlias)
                           ELSE "main"))
     ELSE "")

\* the entry with "set" and "present" meaning a non-empty string
NonEmpty(o) == IsSet(o) /\ Val(o) # ""
EntryWhenNonEmpty(f, aa) ==
    (IF NonEmpty(f.tableAlias) THEN Val(f.tableAlias) \o "." \o f.fieldName
     ELSE f.fieldName) \o
    (IF aa
     THEN " AS " \o (IF NonEmpty(f.alias) THEN Val(f.alias)
                     ELSE f.fieldName \o "_" \o
                          (IF NonEmpty(f.tableAlias) THEN Val(f.tableAlias)
                           ELSE "main"))
     ELSE "")

C6_AliasesDoNotCollide ==
    (DeliveredSelect /\ Val(compiled).autoAlias) =>
        \A i, j \in 1..Len(Arg.selectedFields) :
            LET fi == Arg.selectedFields[i]
                fj == Arg.selectedFields[j]
            IN  <<fi.fieldName, fi.tableAlias>> # <<fj.fieldName, fj.tableAlias>>
                    => alias(fi) # alias(fj)

\* C7: every compile that delivers a text, the empty text of an empty
\* selection included, also passes the compiled state to onStateChange.
C7_NotifiedOnEveryCompile ==
    Delivered => notified = Some(Arg)

\* C8: two compilations of the same state value under the same autoAlias value
\* deliver identical text, whatever was edited before or between them.
C8_SameInputsSameText ==
    [][ ( /\ Delivered /\ Delivered'
          /\ Arg' = Arg
          /\ Val(compiled').autoAlias = Val(compiled).autoAlias
          /\ autoAlias' = autoAlias )
        => query' = query ]_vars

\* C9: no builder operation throws: the compile step of every field add,
\* remove, reorder, Distinct toggle and Auto-alias toggle completes and
\* delivers a query text.
C9_NoOperationThrows ==
    lastOp # "init" => (~threw /\ IsSet(query))

----------------------------------------------------------------------------
(* Properties of the table-name classifier (parseTableName) *)

\* a purely numeric, non-empty, digits-only segment
StrictInteger(seg) == Len(seg) > 0 /\ \A i \in 1..Len(seg) : seg[i] \in DecimalDigit

HasStrictDate(name) ==
    LET parts == split(name, "_")
    IN  Len(parts) >= 3 /\ \A i \in 1..3 : StrictInteger(parts[i])

NameOnly(p) ==
    ~IsSet(p.year) /\ ~IsSet(p.month) /\ ~IsSet(p.day) /\ ~IsSet(p.type)

\* C10: year, month and day are populated only if the name has at least three
\* underscore-delimited segments and each of the first three is a non-empty
\* digits-only string; for every other name the result is {name} only.
C10_DateOnlyForStrictIntegers ==
    IsSet(parsed) =>
        /\ Val(parsed).name = table
        /\ (IsSet(Val(parsed).year) \/ IsSet(Val(parsed).month)
                \/ IsSet(Val(parsed).day)) => HasStrictDate(table)
        /\ ~HasStrictDate(table) => NameOnly(Val(parsed))

\* number of underscore-delimited segments of a name
SegmentCount(name) == Cardinality({ i \in 1..Len(name) : name[i] = "_" }) + 1

\* C11: for a name whose first three segments are digit strings, year, month
\* and day are those segments verbatim (no padding change, no calendar check),
\* type is the remaining segments rejoined with '_' (empty when none remain)
\* and name is the input.
C11_DatePartsVerbatim ==
    (IsSet(parsed) /\ HasStrictDate(table)) =>
        LET p == Val(parsed)
        IN  /\ p.name = table
            /\ IsSet(p.year) /\ IsSet(p.month) /\ IsSet(p.day) /\ IsSet(p.type)
            /\ StrictInteger(Val(p.year)) /\ StrictInteger(Val(p.month))
            /\ StrictInteger(Val(p.day))
            /\ table = Val(p.year) \o <<"_">> \o Val(p.month) \o <<"_">> \o
                       Val(p.day) \o
                       (IF SegmentCount(table) = 3 THEN << >>
                        ELSE <<"_">> \o Val(p.type))
            /\ SegmentCount(table) = 3 => Val(p.type) = << >>

\* a dated name with month 13 and a type of several segments has been parsed
C11_Witness ==
    /\ IsSet(parsed) /\ HasStrictDate(table)
    /\ Val(parsed).month = Some(<<"1", "3">>)
    /\ SegmentCount(table) > 4

----------------------------------------------------------------------------
(* Properties of groupTablesByDate *)

\* the table occurs in some month list of some returned group
InSomeGroup(tbl) ==
    \E g \in 1..Len(Val(tableGroups)) :
        \E m \in 1..Len(Val(tableGroups)[g].months) :
            \E i \in 1..Len(Val(tableGroups)[g].months[m].v) :
                Val(tableGroups)[g].months[m].v[i] = tbl

C13_MonthsEnumeratedDescending ==
    IsSet(tableGroups) =>
        \A g \in 1..Len(Val(tableGroups)) :
            LET e == ObjectEntries(Val(tableGroups)[g].months)
            IN  \A i, j \in 1..Len(e) :
                    i < j => /\ IsSet(parseInt10(e[i].k))
                             /\ IsSet(parseInt10(e[j].k))
                             /\ Val(parseInt10(e[i].k)) > Val(parseInt10(e[j].k))

----------------------------------------------------------------------------
(* Properties of groupDatasets *)

\* the categories of the returned groups that list the dataset
CategoriesOf(dataset) ==
    { Val(datasetGroups)[g].category : g \in
        { h \in 1..Len(Val(datasetGroups)) :
            \E i \in 1..Len(Val(datasetGroups)[h].datasets) :
                Val(datasetGroups)[h].datasets[i] = dataset } }

MatchesKnownPrefix(dataset) ==
    \E i \in 1..Len(prefixMap) : startsWith(dataset, prefixMap[i].k)

\* C14: a dataset name that starts with a known prefix gets the category of
\* the first matching prefix in declaration order, whatever follows the prefix.
C14_FirstPrefixWins ==
    IsSet(datasetGroups) =>
        \A n \in 1..Len(datasets) :
            MatchesKnownPrefix(datasets[n]) =>
                LET first == CHOOSE i \in 1..Len(prefixMap) :
                                 /\ startsWith(datasets[n], prefixMap[i].k)
                                 /\ \A j \in 1..(i - 1) :
                                        ~startsWith(datasets[n], prefixMap[j].k)
                IN  CategoriesOf(datasets[n]) = {prefixMap[first].v}

\* names with text after a known prefix, one of them matching two prefixes,
\* have been grouped
C14_Witness ==
    /\ IsSet(datasetGroups)
    /\ \E n, m \in 1..Len(datasets) :
          /\ Cardinality({ i \in 1..Len(prefixMap) :
                             startsWith(datasets[n], prefixMap[i].k) }) = 2
          /\ MatchesKnownPrefix(datasets[m])
          /\ includes(datasets[m], <<"_">>)
          /\ CategoriesOf(datasets[m]) # {}

\* the first underscore-delimited segment of a name that has an underscore
FirstSegment(name) ==
    SubSeq(name, 1, (CHOOSE i \in 1..Len(name) :
                        name[i] = "_" /\ \A j \in 1..(i - 1) : name[j] # "_") - 1)

\* C15: a dataset name that matches no known prefix gets, if it contains an
\* underscore, its first segment with the first character upper-cased and the
\* rest unchanged, and otherwise the category 'Other'; every name gets a
\* category.
C15_DerivedOrOther ==
    IsSet(datasetGroups) =>
        \A n \in 1..Len(datasets) :
            /\ Cardinality(CategoriesOf(datasets[n])) = 1
            /\ ~MatchesKnownPrefix(datasets[n]) =>
                  IF \E i \in 1..Len(datasets[n]) : datasets[n][i] = "_"
                  THEN LET seg == FirstSegment(datasets[n])
                       IN  CategoriesOf(datasets[n]) =
                             { IF seg = << >> THEN << >>
                               ELSE <<charToUpperCase(seg[1])>> \o Tail(seg) }
                  ELSE CategoriesOf(datasets[n]) = {Other}

\* an unmatched name with a lower-case first segment and an unmatched name
\* without underscore have been grouped
C15_Witness ==
    /\ IsSet(datasetGroups)
    /\ \E n, m \in 1..Len(datasets) :
          /\ ~MatchesKnownPrefix(datasets[n]) /\ ~MatchesKnownPrefix(datasets[m])
          /\ includes(datasets[n], <<"_">>) /\ Len(datasets[n]) > 0
          /\ IsLower(datasets[n][1])
          /\ ~includes(datasets[m], <<"_">>)
          /\ CategoriesOf(datasets[m]) = {Other}

\* C16: the returned categories are in ascending alphabetical order, except
\* that a category named exactly 'Other' is the last element whenever it
\* exists; there is at most one such group.
C16_OtherLast ==
    IsSet(datasetGroups) =>
        LET G == Val(datasetGroups)
        IN  /\ \A i \in 1..Len(G) : G[i].category = Other => i = Len(G)
            /\ \A i, j \in 1..Len(G) :
                  (i < j /\ G[i].category # Other /\ G[j].category # Other)
                      => localeCompare(G[i].category, G[j].category) < 0

\* 'Other' groups together with a category that sorts after it alphabetically
C16_Witness ==
    /\ IsSet(datasetGroups)
    /\ Len(Val(datasetGroups)) >= 3
    /\ Val(datasetGroups)[Len(Val(datasetGroups))].category = Other
    /\ \E i \in 1..Len(Val(datasetGroups)) :
          localeCompare(Val(datasetGroups)[i].category, Other) > 0

----------------------------------------------------------------------------
(* Properties of insertFieldIntoQuery *)

\* the qualifier the specification prescribes for the recorded call
QualifierOf(call) ==
    IF IsSet(call.dataset) /\ IsSet(call.table)
    THEN <<Backtick>> \o Val(call.dataset) \o <<".">> \o Val(call.table) \o <<Backtick>>
    ELSE << >>

QualifiedField(call) == QualifierOf(call) \o <<".">> \o call.fieldName

ContainsSelect(q) ==
    \E i \in 0..(Len(q) - 6) : toLowerCase(SubSeq(q, i + 1, i + 6)) = select

\* C17: inserting a field into an empty query gives exactly 'SELECT ' +
\* prefix + '.' + fieldName, the prefix being the backtick-quoted
\* dataset.table when both are known and empty when either is missing.
C17_EmptyQueryStartsSelect ==
    (IsSet(inserted) /\ Val(inserted).query = << >>) =>
        explorerQuery = <<"S", "E", "L", "E", "C", "T", " ">> \o QualifiedField(Val(inserted))

\* a field was inserted into the empty query with dataset and table known
C17_Witness ==
    /\ IsSet(inserted) /\ Val(inserted).query = << >>
    /\ IsSet(Val(inserted).dataset) /\ IsSet(Val(inserted).table)
    /\ Len(explorerQuery) > 0

\* C18: inserting into a non-empty query that contains no SELECT appends
\* 'SELECT <prefix>.<field>': the prior content of the query is still present
\* in the result.
C18_PriorContentKept ==
    (IsSet(inserted) /\ Len(Val(inserted).query) > 0
        /\ ~ContainsSelect(Val(inserted).query)) =>
        /\ endsWith(explorerQuery, <<"S", "E", "L", "E", "C", "T", " ">> \o QualifiedField(Val(inserted)))
        /\ includes(explorerQuery, Val(inserted).query)

IsWordChar(c) == IsUpper(c) \/ IsLower(c) \/ c \in DecimalDigit \/ c = "_"

\* the trimmed query ends with SELECT standing as a word of its own
EndsWithBareSelect(q) ==
    LET t == trimEnd(q)
    IN  /\ Len(t) >= 6
        /\ toLowerCase(SubSeq(t, Len(t) - 5, Len(t))) = select
        /\ (Len(t) > 6 => ~IsWordChar(t[Len(t) - 6]))

\* C19: for a non-empty query that contains SELECT, the result is the query,
\* a space and prefix.field when the trimmed query ends with the bare word
\* SELECT, and otherwise (also when the last word merely ends in 'select') the
\* query, a comma, a new line, two spaces and prefix.field.
C19_BareSelectDecides ==
    (IsSet(inserted) /\ Len(Val(inserted).query) > 0
        /\ ContainsSelect(Val(inserted).query)) =>
        explorerQuery =
            Val(inserted).query
            \o (IF EndsWithBareSelect(Val(inserted).query)
                THEN <<" ">> ELSE <<",", "\n", " ", " ">>)
            \o QualifiedField(Val(inserted))

----------------------------------------------------------------------------
(* Properties of the field selection *)

\* C20: starting from an empty selection, whatever fields are added, removed
\* and drag-reordered, no two entries of selectedFields have the same
\* fieldName.
C20_FieldNamesUnique ==
    \A i, j \in 1..Len(state.selectedFields) :
        (i # j /\ state.selectedFields[i].js = "object"
               /\ state.selectedFields[j].js = "object")
            => state.selectedFields[i].fieldName # state.selectedFields[j].fieldName

\* two fields are selected after a drag that moved one of them
C20_Witness ==
    /\ lastOp = "reorder"
    /\ Len(state.selectedFields) >= 2
    /\ \A i \in 1..Len(state.selectedFields) :
          state.selectedFields[i].js = "object"
    /\ state.selectedFields[1].fieldName # tableSchema[1]

----------------------------------------------------------------------------
(* Properties of the clauses after FROM *)

\* a condition as the specification words it: the value bare when isField is
\* true, a literal otherwise
StatedCondition(cond) ==
    cond.field \o " " \o cond.operator \o " " \o
    (IF cond.isField = Some(TRUE)
     THEN (IF cond.value.t = "string" THEN cond.value.s
           ELSE ToString(cond.value.n))
     ELSE (IF cond.value.t = "string" THEN "\"" \o cond.value.s \o "\""
           ELSE ToString(cond.value.n)))

RECURSIVE StatedConditions(_, _)
StatedConditions(conds, conjunction) ==
    IF Len(conds) = 0 THEN ""
    ELSE IF Len(conds) = 1 THEN StatedCondition(conds[1])
    ELSE StatedCondition(conds[1]) \o " " \o conjunction \o " "
         \o StatedConditions(Tail(conds), conjunction)

\* every way a list of conditions can be written after a clause keyword:
\* either conjunction, each value bare or literal
RECURSIVE ConditionTexts(_, _)
ConditionTexts(conds, conjunction) ==
    IF Len(conds) = 0 THEN {""}
    ELSE LET c == conds[1]
             one == { c.field \o " " \o c.operator \o " " \o v :
                        v \in { ValueStr(c.value), JSONstringify(c.value) } }
         IN  IF Len(conds) = 1 THEN one
             ELSE { a \o " " \o conjunction \o " " \o b :
                      a \in one, b \in ConditionTexts(Tail(conds), conjunction) }

ConditionLists ==
    ConditionSamples \cup
    { Val(Val(g).having).conditions :
        g \in { x \in GroupBySamples : x # None /\ Val(x).having # None } }

\* the texts of the WHERE lines (resp. HAVING lines) a compile could write
WhereLineTexts ==
    { "WHERE " \o b : b \in UNION { ConditionTexts(c, j) :
                                      c \in ConditionLists, j \in {"AND", "OR"} } }

\* C21: with a non-empty selection the text has a WHERE clause exactly when
\* where is present with at least one condition; the clause then holds all
\* its conditions joined by the one declared conjunction, each value bare when
\* isField is true and a literal otherwise.
C21_WhereIffConditions ==
    DeliveredSelect =>
        LET has == IsSet(Arg.where) /\ Len(Val(Arg.where).conditions) > 0
        IN  /\ HasLine(WhereLineTexts) <=> has
            /\ has => \E i \in 1..Len(lines) :
                  /\ lines[i] = "WHERE " \o
                        StatedConditions(Val(Arg.where).conditions,
                                         Val(Arg.where).conjunction)
                  /\ \A j \in 1..Len(lines) :
                        j # i => lines[j] \notin WhereLineTexts

\* a where clause of two conditions under OR has been compiled
C21_Witness ==
    /\ DeliveredSelect /\ IsSet(Arg.where)
    /\ Len(Val(Arg.where).conditions) = 2
    /\ Val(Arg.where).conjunction = "OR"
    /\ HasLine(WhereLineTexts)

RECURSIVE Joined(_, _)
\* texts put one after another with a separator between them
Joined(texts, sep) ==
    IF Len(texts) = 0 THEN ""
    ELSE IF Len(texts) = 1 THEN texts[1]
    ELSE texts[1] \o sep \o Joined(Tail(texts), sep)

\* a join line as the specification words it
StatedJoin(j) ==
    j.type \o " JOIN " \o j.table \o " AS " \o j.tableAlias \o " ON " \o
    Joined([k \in 1..Len(j.conditions) |->
               j.conditions[k].leftField \o " " \o j.conditions[k].operator
                   \o " " \o j.conditions[k].rightField], " AND ")

\* an ORDER BY line as the specification words it
StatedOrderBy(order) ==
    "ORDER BY " \o
    Joined([k \in 1..Len(order) |-> order[k].field \o " " \o order[k].direction],
           ", ")

\* the texts each kind of line can have, by clause
SelectLineTexts == {"SELECT", "SELECT DISTINCT"}
FieldLineTexts ==
    { "  " \o EntryWhenNonEmpty(f, aa) \o sfx :
        f \in FieldSamples \cup
              { sel[1] : sel \in PlainSelections \ {<< >>} } \cup
              { QueryField(SchemaNames[k], None, None) : k \in 1..Len(SchemaNames) },
        aa \in BOOLEAN, sfx \in {"", ","} }
FromLineTexts == {"FROM ${TABLE}"}
JoinLineTexts ==
    UNION { { StatedJoin(js[k]) : k \in 1..Len(js) } : js \in JoinSamples }
GroupByLineTexts ==
    { "GROUP BY " \o Joined(Val(g).fields, ", ") :
        g \in GroupBySamples \ {None} }
HavingLineTexts ==
    { "HAVING " \o b : b \in UNION { ConditionTexts(c, j) :
                                       c \in ConditionLists, j \in {"AND", "OR"} } }
OrderByLineTexts ==
    { StatedOrderBy(Val(o)) : o \in OrderBySamples \ {None} }

\* the clauses in the order the specification fixes
ClauseTexts ==
    <<SelectLineTexts, FieldLineTexts, FromLineTexts, JoinLineTexts,
      WhereLineTexts, GroupByLineTexts, HavingLineTexts, OrderByLineTexts,
      LimitLineTexts, OffsetLineTexts>>

IsClauseLine(line) == \E r \in 1..Len(ClauseTexts) : line \in ClauseTexts[r]
Rank(line) == CHOOSE r \in 1..Len(ClauseTexts) : line \in ClauseTexts[r]

\* the lines of one clause, in text order
RECURSIVE LinesOfRank(_, _)
LinesOfRank(ls, r) ==
    IF Len(ls) = 0 THEN << >>
    ELSE (IF Rank(Head(ls)) = r THEN <<Head(ls)>> ELSE << >>)
         \o LinesOfRank(Tail(ls), r)

\* C22: a non-empty compiled text lists SELECT list, one FROM ${TABLE} line,
\* the JOIN lines in joins order with AND-joined conditions, WHERE, GROUP BY,
\* HAVING, ORDER BY with its pairs in array order, LIMIT, OFFSET in that
\* order; each of these clauses occurs at most once and HAVING only directly
\* after a GROUP BY.
C22_ClauseOrder ==
    DeliveredSelect =>
        /\ \A i \in 1..Len(lines) : IsClauseLine(lines[i])
        /\ \A i, j \in 1..Len(lines) :
              i < j => /\ Rank(lines[i]) <= Rank(lines[j])
                       /\ Rank(lines[i]) = Rank(lines[j])
                             => Rank(lines[i]) \in {2, 4}
        /\ Len(LinesOfRank(lines, 3)) = 1
        /\ LinesOfRank(lines, 4) =
              [k \in 1..Len(Arg.joins) |-> StatedJoin(Arg.joins[k])]
        /\ \A i \in 1..Len(lines) :
              /\ Rank(lines[i]) = 8 =>
                    (IsSet(Arg.orderBy) /\ lines[i] = StatedOrderBy(Val(Arg.orderBy)))
              /\ Rank(lines[i]) = 7 => (i > 1 /\ Rank(lines[i - 1]) = 6)

\* a state with two joins, WHERE, GROUP BY with HAVING, ORDER BY, LIMIT and
\* OFFSET has been compiled
C22_Witness ==
    /\ DeliveredSelect /\ Len(Arg.joins) = 2
    /\ HasLine(WhereLineTexts) /\ HasLine(GroupByLineTexts)
    /\ HasLine(HavingLineTexts) /\ HasLine(OrderByLineTexts)
    /\ HasLine(LimitLineTexts) /\ HasLine(OffsetLineTexts)

\* the lines that end right after a clause keyword
BareKeywordTexts ==
    {"WHERE ", "HAVING "} \cup
    UNION { { js[k].type \o " JOIN " \o js[k].table \o " AS "
                \o js[k].tableAlias \o " ON " : k \in 1..Len(js) } :
            js \in JoinSamples }

\* C26: in every compiled text each ON, WHERE and HAVING keyword is followed
\* by at least one rendered condition, also for a join or a having whose
\* conditions list is empty.
C26_NoBareKeyword ==
    DeliveredSelect => \A i \in 1..Len(lines) : lines[i] \notin BareKeywordTexts

----------------------------------------------------------------------------
(* Properties of the builder's edits *)

\* C24: after every builder edit the text given to onQueryChange is the
\* compilation of the post-edit state under the post-edit auto-alias setting;
\* toggling Auto-alias off gives text without AS aliases at once, toggling it
\* on gives text with them.
C24_TextFollowsEdit ==
    (lastOp # "init" /\ ~threw) =>
        query = updateQueryFromState(state, state.distinct, autoAlias).query

Occurrences(seq, x) == Cardinality({ i \in 1..Len(seq) : seq[i] = x })

IsPermutation(new, old) ==
    /\ Len(new) = Len(old)
    /\ \A i \in 1..Len(new) : new[i].js = "object"
    /\ \A i \in 1..Len(new) : Occurrences(new, new[i]) = Occurrences(old, new[i])

\* C25: for every index pair the field selector can report (positions in the
\* schema field list), handleFieldReorder leaves a permutation of the previous
\* selection: same entries, same length, no undefined entry.
C25_ReorderPermutes ==
    [][(mounted /\ lastOp' = "reorder")
          => IsPermutation(state'.selectedFields, state.selectedFields)]_vars

----------------------------------------------------------------------------
(* Properties of successive field insertions *)

RECURSIVE FieldList(_, _)
\* 'SELECT q.f1' and, for every further field, a comma, a new line, two
\* spaces and 'q.fi'
FieldList(qualifier, fields) ==
    IF Len(fields) = 1
    THEN <<"S", "E", "L", "E", "C", "T", " ">> \o qualifier \o <<".">> \o fields[1]
    ELSE FieldList(qualifier, SubSeq(fields, 1, Len(fields) - 1))
         \o <<",", "\n", " ", " ">> \o qualifier \o <<".">> \o fields[Len(fields)]

\* C23: from an empty query, with dataset d and table t selected, clicking
\* the fields f1, ..., fn one after another leaves 'SELECT `d.t`.f1' followed
\* for each further field by a comma, a new line, two spaces and '`d.t`.fi',
\* whatever the field names are.
C23_ClicksBuildFieldList ==
    (/\ IsSet(inserted) /\ Len(Val(inserted).clicked) > 0
     /\ IsSet(Val(inserted).dataset) /\ IsSet(Val(inserted).table)) =>
        explorerQuery = FieldList(QualifierOf(Val(inserted)), Val(inserted).clicked)

----------------------------------------------------------------------------
(* groupDatasets as a partition *)

RECURSIVE AllGrouped(_)
\* the datasets lists of the groups, one after another
AllGrouped(G) ==
    IF Len(G) = 0 THEN << >> ELSE Head(G).datasets \o AllGrouped(Tail(G))

IsPartition(G, input) ==
    /\ Len(AllGrouped(G)) = Len(input)
    /\ \A n \in 1..Len(input) :
          /\ Occurrences(AllGrouped(G), input[n]) = Occurrences(input, input[n])
          /\ Cardinality({ g \in 1..Len(G) :
                             Occurrences(G[g].datasets, input[n]) > 0 }) = 1
    /\ \A g \in 1..Len(G) : Len(G[g].datasets) > 0
    /\ \A g, h \in 1..Len(G) : g # h => G[g].category # G[h].category

\* C29: groupDatasets partitions its input: every occurrence of a dataset
\* name is in the datasets list of exactly one returned group, duplicates
\* keep their multiplicity, no group is empty, no two groups share a
\* category, and the input list is left as it was.
C29_GroupsPartitionInput ==
    [][IsSet(datasetGroups') =>
          /\ IsPartition(Val(datasetGroups'), datasets)
          /\ datasets' = datasets]_vars

\* a list naming one dataset twice has been split into several groups
C29_Witness ==
    /\ IsSet(datasetGroups)
    /\ Len(Val(datasetGroups)) >= 2
    /\ \E n, m \in 1..Len(datasets) : n # m /\ datasets[n] = datasets[m]

----------------------------------------------------------------------------
(* Properties of the table selector and of Explorer's selection *)

\* C27: in the open modal, after any ArrowUp / ArrowDown presses, search
\* edits and changes of the tables list, selectedIndex is not negative and
\* is at most max(0, length - 1) of the filtered list.
C27_SelectedIndexInRange ==
    isOpen =>
        /\ selectedIndex >= 0
        /\ selectedIndex <= Max(0, Len(filteredTables(tablesProp, search)) - 1)

\* C28: whenever a dataset and a table are both selected, the table is one of
\* the tables of the selected dataset, so the qualifier `dataset.table` never
\* pairs a dataset with a table picked under another dataset.
C28_TableBelongsToDataset ==
    (IsSet(selectedDataset) /\ IsSet(selectedTable)) =>
        \E i \in 1..Len(DatasetTables(Val(selectedDataset))) :
            DatasetTables(Val(selectedDataset))[i] = Val(selectedTable)

\* C30: Enter pressed while the modal is open calls onSelect with the name of
\* the filtered-list entry at selectedIndex and then onClose, exactly when
\* that entry exists, and calls neither otherwise; a key pressed while the
\* modal is closed calls nothing and leaves selectedIndex as it was.
C30_EnterSelectsEntry ==
    IsSet(keyed) =>
        LET k == Val(keyed)
            exists == k.selectedIndex >= 0
                        /\ k.selectedIndex < Len(k.filteredTables)
        IN  /\ (k.isOpen /\ k.key = "Enter") =>
                  IF exists
                  THEN /\ k.calls =
                            <<[f |-> "onSelect",
                               arg |-> Some(k.filteredTables[k.selectedIndex + 1].name)],
                              [f |-> "onClose", arg |-> None]>>
                       /\ selectedTable =
                            Some(k.filteredTables[k.selectedIndex + 1].name)
                       /\ selectedMonth = None
                  ELSE k.calls = << >>
            /\ ~k.isOpen => (k.calls = << >> /\ selectedIndex = k.selectedIndex)

\* Enter was pressed in the open modal on a row other than the first
C30_Witness ==
    /\ IsSet(keyed) /\ Val(keyed).isOpen /\ Val(keyed).key = "Enter"
    /\ Val(keyed).selectedIndex >= 1
    /\ Len(Val(keyed).calls) = 2

====
